---- MODULE Spec2Model ----
(***************************************************************************)
(* The test-orchestration and health-verification harness:                 *)
(*   tests/health-check.js, tests/ci-health-check.js,                      *)
(*   tests/integration/run-tests.js   (the suite scripts)                  *)
(*   run-tests.js                     (the top-level orchestrator)         *)
(*                                                                         *)
(* One process runs one script; Init chooses which.  Node's event loop is  *)
(* modelled by one action per callback: an action is everything the script *)
(* does from the delivery of one event (response, 'end', 'error', timer,   *)
(* child 'close') up to the next await that needs another event.           *)
(***************************************************************************)
EXTENDS Integers, Sequences, FiniteSets, TLC

VARIABLES
    script,      \* which script this process runs
    pc,          \* position of the script's main async function
    exitCode,    \* argument of process.exit, -1 while the process runs
    fatal,       \* an 'uncaughtException' or 'unhandledRejection' was emitted
    mock,        \* the mock server the script runs against, if any
    \* ---- suite scripts ----
    retries,     \* testWithRetry's parameter `retries`
    idx,         \* index of the current entry of `tests` (for ... of tests)
    i,           \* loop variable of testWithRetry
    passed,      \* let passed
    failed,      \* let failed
    results,     \* outcomes in the order they were recorded
    lastError,   \* the error the runner caught / logged for the last Test Case
    lastMessage, \* error.message of that error
    calls,       \* invocations of testFn by the current testWithRetry call
    sleeps,      \* invocations of sleep by the current testWithRetry call
    attemptLog,  \* how each await testFn() of the current call ended
    started,     \* Test Cases whose function has been invoked
    req,         \* the request of the makeRequest promise being awaited
    probeNo,     \* which makeRequest call of the test function is awaited
    staleSent,   \* timed-out requests still open, no response yet
    staleBody,   \* timed-out requests still open, response headers received
    \* ---- orchestrator (run-tests.js) ----
    args,        \* process.argv.slice(2), as a set of flags
    urlScheme,   \* protocols of CONFIG.API_URL and CONFIG.WEB_URL (environment)
    mode,        \* "all": runAllTests, "single": one suite function, "none"
    hasNodeModules, \* fs.existsSync(tests/web/node_modules)
    apiHealthy,
    webHealthy,
    preflight,   \* number of pre-flight probes sent by checkServices
    suiteIdx,    \* index of the current entry of testSuites
    suiteResults,\* const results = [] of runAllTests
    runs,        \* how many times each suite function has been called
    cmdNo,       \* which runCommand call of the suite function is awaited
    lintResults, \* let lintResults = [] of runLinting
    cmdLog       \* how each runCommand of the current suite function ended

suiteVars ==
    <<retries, idx, i, passed, failed, results, lastError, lastMessage, calls,
      sleeps, attemptLog, started, req, probeNo, staleSent, staleBody>>

orchVars ==
    <<args, urlScheme, mode, hasNodeModules, apiHealthy, webHealthy,
      preflight, suiteIdx, suiteResults, runs, cmdNo, lintResults, cmdLog>>

vars ==
    <<script, pc, exitCode, fatal, mock, suiteVars, orchVars>>

---------------------------------------------------------------------------
\* Bounds of the model

\* largest value of testWithRetry's `retries` explored (CONFIG.RETRY_COUNT is 3)
MaxRetries == 3

\* CONFIG.TIMEOUT measured in clock ticks
TimeoutTicks == 1

\* timed-out requests the server keeps open at the same time
MaxStale == 1

---------------------------------------------------------------------------
\* Configuration and the registered Test Cases

RETRY_COUNT == 3

SuiteScripts ==
    {"health-check", "ci-health-check", "integration"}

Scripts ==
    SuiteScripts \cup {"run-tests", "platform-check"}

HealthTests ==
    <<"API Health", "API Detailed Health", "API Status", "API Documentation",
      "Web Frontend", "Web Health Page", "CORS Configuration">>

CITests ==
    <<"API Health", "API Documentation", "Web Frontend", "Web Health Page">>

IntegrationTests ==
    <<"API Response Time", "API Content Types", "API Error Handling",
      "Web Performance", "Full Stack Communication", "Service Dependencies",
      "Environment Configuration", "Security Headers">>

tests(s) ==
    CASE s = "health-check" -> HealthTests
      [] s = "ci-health-check" -> CITests
      [] s = "integration" -> IntegrationTests
      [] OTHER -> << >>

\* endpoints probed one after the other by testApiContentTypes
ContentTypeEndpoints ==
    <<"/health", "/health/detailed", "/api/status", "/docs">>

\* number of makeRequest calls a test function makes when every check passes
ProbesOf(s, k) ==
    IF s = "integration" /\ tests(s)[k] = "API Content Types"
    THEN Len(ContentTypeEndpoints)
    ELSE 1

\* Classes of a complete response, relative to what the test function expects:
\*   ok          status code and content as expected
\*   bad_status  status code differs from the expected one
\*   bad_body    expected status code, body or headers fail a content check
Responses ==
    {"ok", "bad_status", "bad_body"}

\* Test functions that throw on a content mismatch.  The others check the
\* status code only; testApiHealth of ci-health-check.js catches its own
\* content errors and logs them.
BodyChecked(s, k) ==
    CASE s = "health-check" ->
            tests(s)[k] \notin {"Web Health Page", "CORS Configuration"}
      [] s = "ci-health-check" ->
            tests(s)[k] \in {"API Documentation", "Web Frontend"}
      [] s = "integration" ->
            tests(s)[k] # "API Response Time"
      [] OTHER -> FALSE

\* whether the test function goes on (does not throw) after this response
TestPasses(s, k, resp) ==
    \/ resp = "ok"
    \/ resp = "bad_body" /\ ~BodyChecked(s, k)

---------------------------------------------------------------------------
\* Test functions modelled on the content of the response

StatusCodes ==
    {200, 404, 503}

\* const requiredFields = [...] of testEnvironmentConfig
requiredFields ==
    <<"environment", "cors_origins", "allowed_hosts">>

\* What JSON.parse and the checks of the test functions see of a body:
\*   kind       "object" a JSON object, "null" the JSON text null,
\*              "invalid" not JSON
\*   status     the value of the member status ("none": no such member)
\*   fields     the members among requiredFields whose value is truthy
\*   corsArray  whether cors_origins is an array
NoObject(kind) ==
    [kind |-> kind, status |-> "none", fields |-> {}, corsArray |-> FALSE]

Bodies ==
    {NoObject("invalid"), NoObject("null")}
    \cup {b \in [kind : {"object"}, status : {"ok", "degraded", "none"},
                 fields : SUBSET {"environment", "cors_origins",
                                  "allowed_hosts"},
                 corsArray : BOOLEAN] :
             b.corsArray => "cors_origins" \in b.fields}

\* bodies of GET /health, which carries no configuration
HealthBodies ==
    {b \in Bodies : b.fields = {}}

\* bodies of GET /api/status as far as testEnvironmentConfig reads them
StatusBodies ==
    {b \in Bodies : b.status = "none"}

\* the {statusCode, headers, body} makeRequest resolves with
ResponsesFor(bodies) ==
    [statusCode : StatusCodes, body : bodies]

\* error.message: its text, and the status code or the name it interpolates
Msg(text, code, detail) ==
    [text |-> text, code |-> code, detail |-> detail]

NoMessage ==
    Msg("", 0, "")

Return ==
    [ok |-> TRUE, msg |-> NoMessage]

Throw(m) ==
    [ok |-> FALSE, msg |-> m]

\* JSON.parse(response.body) followed by a member access on the result
ParseError(b) ==
    IF b.kind = "invalid"
    THEN Msg("SyntaxError", 0, "")
    ELSE Msg("TypeError", 0, "")

\* variant: the status code is not looked at before the body is parsed
testApiHealth_NoStatusCheck(r) ==
    IF r.body.kind # "object"
    THEN Throw(ParseError(r.body))
    ELSE IF r.body.status # "ok"
         THEN Throw(Msg("API health status is not 'ok'", 0, r.body.status))
         ELSE Return

\* testApiHealth of health-check.js, after await makeRequest(.../health)
testApiHealth(r) ==
    IF r.statusCode # 200
    THEN Throw(Msg("API health check failed with status", r.statusCode, ""))
    ELSE IF r.body.kind # "object"
         THEN Throw(ParseError(r.body))
         ELSE IF r.body.status # "ok"
              THEN Throw(Msg("API health status is not 'ok'", 0,
                             r.body.status))
              ELSE Return

\* testApiHealth of ci-health-check.js: JSON.parse and the status check sit
\* in a try block whose catch only logs
ciTestApiHealth(r) ==
    IF r.statusCode # 200
    THEN Throw(Msg("API health check failed with status", r.statusCode, ""))
    ELSE Return

\* for (const field of requiredFields) if (!data[field]) throw ...
FirstMissing(b, fields) ==
    LET missing == {j \in 1..Len(fields) : fields[j] \notin b.fields}
    IN IF missing = {}
       THEN "none"
       ELSE fields[CHOOSE j \in missing : \A k \in missing : j <= k]

\* the checks of testEnvironmentConfig over the parsed body, the required
\* fields taken in the order `fields`
CheckConfig(r, fields) ==
    IF r.statusCode # 200
    THEN Throw(Msg("Environment config check failed with status",
                   r.statusCode, ""))
    ELSE IF r.body.kind # "object"
         THEN Throw(ParseError(r.body))
         ELSE IF FirstMissing(r.body, fields) # "none"
              THEN Throw(Msg("Missing configuration field", 0,
                             FirstMissing(r.body, fields)))
              ELSE IF ~r.body.corsArray
                   THEN Throw(Msg("TypeError", 0, ""))
                   ELSE Return

\* variant: the required fields are checked in the opposite order
testEnvironmentConfig_Reversed(r) ==
    CheckConfig(r, <<"allowed_hosts", "cors_origins", "environment">>)

\* testEnvironmentConfig of integration/run-tests.js, after
\* await makeRequest(.../api/status)
testEnvironmentConfig(r) ==
    CheckConfig(r, requiredFields)

\* the Test Cases whose function is modelled on the response content
Concrete(s, k) ==
    \/ s \in {"health-check", "ci-health-check"} /\ tests(s)[k] = "API Health"
    \/ s = "integration" /\ tests(s)[k] = "Environment Configuration"

\* every response a server can give to the probe of such a Test Case
ServerResponses(s) ==
    IF s = "integration"
    THEN ResponsesFor(StatusBodies)
    ELSE ResponsesFor(HealthBodies)

\* a run against a live server: each response is the server's choice
NoMock ==
    [on |-> FALSE,
     response |-> [statusCode |-> 200, body |-> NoObject("invalid")]]

\* what a complete response to the current probe of Test Case k can be:
\* with a mock server, the mocked response for the modelled Test Case and
\* the expected response for the others
Answers(s, k, m) ==
    IF Concrete(s, k)
    THEN IF m.on THEN {m.response} ELSE ServerResponses(s)
    ELSE IF m.on THEN {"ok"} ELSE Responses

\* the error of a failed check in a test function not modelled on content
CheckFailed ==
    Msg("check failed", 0, "")

\* what the test function does with the response: returns or throws
Outcome(s, k, resp) ==
    CASE s = "health-check" /\ Concrete(s, k) -> testApiHealth(resp)
      [] s = "ci-health-check" /\ Concrete(s, k) -> ciTestApiHealth(resp)
      [] s = "integration" /\ Concrete(s, k) -> testEnvironmentConfig(resp)
      [] OTHER -> IF TestPasses(s, k, resp) THEN Return ELSE Throw(CheckFailed)

---------------------------------------------------------------------------
\* makeRequest: the request behind the awaited promise

NoReq ==
    [phase |-> "idle", timer |-> FALSE, elapsed |-> 0]

\* new Promise executor: setTimeout(reject, TIMEOUT); http.get(url, callback)
NewReq ==
    [phase |-> "sent", timer |-> TRUE, elapsed |-> 0]

\* the 'response' callback: clearTimeout(timeout), then collect the body
OnResponse(r) ==
    [r EXCEPT !.phase = "body", !.timer = FALSE]

\* what becomes of the request when the timeout callback rejects the promise:
\* the callback only rejects, the request is neither aborted nor destroyed
AfterTimeout(sent, body) ==
    IF sent + body < MaxStale THEN sent + 1 ELSE sent

\* the connection is closed before the body is complete: res emits 'aborted'
\* and 'close' but not 'end', and the callback listens to 'data' and 'end'
\* only, so the promise is neither resolved nor rejected
OnAborted(r) ==
    [phase |-> "aborted", timer |-> FALSE, elapsed |-> 0]

\* requests of this process the server has not finished
Outstanding ==
    (IF req.phase \in {"sent", "body"} THEN 1 ELSE 0) + staleSent + staleBody

---------------------------------------------------------------------------
\* testWithRetry and the suite runner's loop body

NoError ==
    [kind |-> "none", attempt |-> 0]

\* variant: the last attempt is taken to be the one before the last
IsLastAttempt_OneEarly(n, r) ==
    n = r - 2

\* if (i === retries - 1)
IsLastAttempt(n, r) ==
    n = r - 1

\* what testWithRetry gives its caller
ResultOnPass(s) ==
    IF s = "ci-health-check" THEN "true" ELSE "return"

ResultOnExhausted(s) ==
    IF s = "ci-health-check" THEN "false" ELSE "throw"

\* the for loop ends without a return: the async function yields undefined
ResultOnFallThrough ==
    "undefined"

\* testWithRetry as a function of `retries` and of how its attempts ended,
\* `log` being the attempts it made: return after an attempt that passed,
\* throw / return false after attempt `retries` failed, and fall out of the
\* for loop when there is no attempt to make
RetryResult(s, n, log) ==
    IF Len(log) > 0 /\ log[Len(log)] = "pass"
    THEN ResultOnPass(s)
    ELSE IF n > 0 /\ Len(log) = n
         THEN ResultOnExhausted(s)
         ELSE ResultOnFallThrough

\* health-check.js, integration: try { await testWithRetry(); passed++ }
\* ci-health-check.js: if (success) passed++ else failed++
CountsAsPassed(s, result) ==
    IF s = "ci-health-check"
    THEN result = "true"
    ELSE result # "throw"

\* variant: the loop steps over every second entry
NextIndex_SkipOne(k) ==
    k + 2

\* the next entry of `tests` the for ... of loop takes
NextIndex(k) ==
    k + 1

\* variant: passed++ placed after the try / catch, so that it always runs
PassedAfter_Always(p, ok) ==
    p + 1

\* passed++ on the success path of the loop body
PassedAfter(p, ok) ==
    IF ok THEN p + 1 ELSE p

\* failed++ on the failure path of the loop body
FailedAfter(f, ok) ==
    IF ok THEN f ELSE f + 1

\* The members of the object runIntegrationTests pushes to results:
\*   try:   results.push({ name, status: 'PASSED', duration: testDuration })
\*   catch: results.push({ name, status: 'FAILED', error: error.message })
\* health-check.js and ci-health-check.js keep the two counters only.
ResultKeys(s, ok) ==
    IF s = "integration"
    THEN IF ok
         THEN {"name", "status", "duration"}
         ELSE {"name", "status", "error"}
    ELSE {}

\* the outcome of the current Test Case is counted and recorded, and the
\* for ... of loop goes on with entry `next`
RecordOutcome(result, err, next) ==
    LET ok == CountsAsPassed(script, result) IN
    /\ passed' = PassedAfter(passed, ok)
    /\ failed' = FailedAfter(failed, ok)
    /\ results' = Append(results,
                         [test |-> idx,
                          status |-> IF ok THEN "PASSED" ELSE "FAILED",
                          keys |-> ResultKeys(script, ok)])
    /\ lastError' = err
    /\ idx' = next
    /\ req' = NoReq
    /\ probeNo' = 0
    /\ pc' = "loop"

\* variant: the loop is left (break) when a Test Case has failed
FinishTest_StopOnFailure(result, err) ==
    RecordOutcome(result, err,
                  IF CountsAsPassed(script, result)
                  THEN NextIndex(idx)
                  ELSE Len(tests(script)) + 1)

\* the runner's loop body after `await testWithRetry(...)` has settled:
\* a failed Test Case does not end the loop
FinishTest(result, err) ==
    RecordOutcome(result, err, NextIndex(idx))

\* await makeRequest(...): the n-th of the test function
IssueProbe(n) ==
    /\ req' = NewReq
    /\ probeNo' = n
    /\ pc' = "probe"

\* try { await testFn(); ... : c invocations were made before this one
BeginAttempt(c) ==
    /\ calls' = c + 1
    /\ started' = started \cup {idx}
    /\ IssueProbe(1)

\* catch (error) { if (last) throw error (ci: log, return false);
\*                 log; await sleep(CONFIG.RETRY_DELAY) }
CatchBlock(kind, last) ==
    /\ attemptLog' = Append(attemptLog, "fail")
    /\ IF last
       THEN /\ FinishTest(ResultOnExhausted(script),
                          [kind |-> kind, attempt |-> calls])
            /\ UNCHANGED <<i, calls, sleeps, started>>
       ELSE /\ sleeps' = sleeps + 1
            /\ req' = NoReq
            /\ probeNo' = 0
            /\ pc' = "sleep"
            /\ UNCHANGED <<i, calls, started, idx, passed, failed, results,
                           lastError>>

\* variant: a failed assertion is rethrown at once, only timeouts and
\* network errors are retried
AttemptFailed_AssertNotRetried(kind) ==
    CatchBlock(kind, IsLastAttempt(i, retries) \/ kind = "assert")

\* await testFn() threw an error of this kind ("timeout", "network",
\* "assert"): the catch block does not look at the error
AttemptFailed(kind) ==
    CatchBlock(kind, IsLastAttempt(i, retries))

\* variant: the `return` after await testFn() is missing, the loop goes on
AttemptPassed_NoReturn ==
    /\ attemptLog' = Append(attemptLog, "pass")
    /\ i' = i + 1
    /\ IF i + 1 < retries
       THEN /\ BeginAttempt(calls)
            /\ UNCHANGED <<passed, failed, results, lastError, idx>>
       ELSE /\ FinishTest(ResultOnFallThrough, NoError)
            /\ UNCHANGED <<calls, started>>
    /\ UNCHANGED sleeps

\* await testFn() returned: return (or return true)
AttemptPassed ==
    /\ attemptLog' = Append(attemptLog, "pass")
    /\ FinishTest(ResultOnPass(script), NoError)
    /\ UNCHANGED <<i, calls, sleeps, started>>

---------------------------------------------------------------------------
\* Actions of a suite script

InSuite ==
    script \in SuiteScripts /\ exitCode = -1

\* error.message of the error the runner is handed: the message of the
\* attempt that ended the Test Case, kept while the Test Case goes on
Surfaced(m) ==
    IF pc' = "loop" THEN m ELSE lastMessage

\* for (const test of tests): take the next Test Case and call testWithRetry,
\* which runs up to its first await
StartTest ==
    /\ InSuite
    /\ pc = "loop"
    /\ idx <= Len(tests(script))
    /\ i' = 0
    /\ sleeps' = 0
    /\ attemptLog' = << >>
    /\ lastMessage' = NoMessage
    /\ IF 0 < retries
       THEN /\ BeginAttempt(0)
            /\ UNCHANGED <<passed, failed, results, lastError, idx>>
       ELSE /\ FinishTest(ResultOnFallThrough, NoError)
            /\ calls' = 0
            /\ UNCHANGED started
    /\ UNCHANGED <<script, fatal, mock, exitCode, retries, staleSent,
                   staleBody, orchVars>>

\* req.on('error'): clearTimeout(timeout); reject(err)
ReqError ==
    /\ InSuite
    /\ pc = "probe"
    /\ req.phase = "sent"
    /\ AttemptFailed("network")
    /\ lastMessage' = Surfaced(Msg("network error", 0, ""))
    /\ UNCHANGED <<script, fatal, mock, exitCode, retries, staleSent,
                   staleBody, orchVars>>

\* the 'response' callback of http.get
ResHeaders ==
    /\ InSuite
    /\ pc = "probe"
    /\ req.phase = "sent"
    /\ req' = OnResponse(req)
    /\ UNCHANGED <<script, fatal, mock, pc, exitCode, retries, idx, i, passed,
                   failed, results, lastError, lastMessage, calls, sleeps,
                   attemptLog, started, probeNo, staleSent, staleBody,
                   orchVars>>

\* res.on('end'): resolve({statusCode, headers, body}); the test function
\* checks the response and either throws, probes again or returns
ResEnd ==
    /\ InSuite
    /\ pc = "probe"
    /\ req.phase = "body"
    /\ \E resp \in Answers(script, idx, mock) :
          LET out == Outcome(script, idx, resp) IN
          /\ IF ~out.ok
             THEN AttemptFailed("assert")
             ELSE IF probeNo < ProbesOf(script, idx)
                  THEN /\ IssueProbe(probeNo + 1)
                       /\ UNCHANGED <<i, calls, sleeps, attemptLog, started,
                                      idx, passed, failed, results, lastError>>
                  ELSE AttemptPassed
          /\ lastMessage' = Surfaced(out.msg)
    /\ UNCHANGED <<script, fatal, mock, exitCode, retries, staleSent,
                   staleBody, orchVars>>

\* the setTimeout callback of makeRequest: reject(new Error('Request timeout'))
TimerFire ==
    /\ InSuite
    /\ pc = "probe"
    /\ req.timer
    /\ req.elapsed = TimeoutTicks
    /\ staleSent' = AfterTimeout(staleSent, staleBody)
    /\ AttemptFailed("timeout")
    /\ lastMessage' = Surfaced(Msg("Request timeout", 0, ""))
    /\ UNCHANGED <<script, fatal, mock, exitCode, retries, staleBody,
                   orchVars>>

\* time passes while a probe is awaited; an armed timer fires at TIMEOUT
Tick ==
    /\ InSuite
    /\ pc = "probe"
    /\ req.phase \in {"sent", "body"}
    /\ req.elapsed <= TimeoutTicks
    /\ req.timer => req.elapsed < TimeoutTicks
    /\ req' = [req EXCEPT !.elapsed = @ + 1]
    /\ UNCHANGED <<script, fatal, mock, pc, exitCode, retries, idx, i, passed,
                   failed, results, lastError, lastMessage, calls, sleeps,
                   attemptLog, started, probeNo, staleSent, staleBody,
                   orchVars>>

\* the setTimeout callback of sleep: the for loop of testWithRetry goes on
Wake ==
    /\ InSuite
    /\ pc = "sleep"
    /\ i' = i + 1
    /\ IF i + 1 < retries
       THEN /\ BeginAttempt(calls)
            /\ UNCHANGED <<passed, failed, results, lastError, idx>>
       ELSE /\ FinishTest(ResultOnFallThrough, NoError)
            /\ UNCHANGED <<calls, started>>
    /\ lastMessage' = Surfaced(NoMessage)
    /\ UNCHANGED <<script, fatal, mock, exitCode, retries, sleeps, attemptLog,
                   staleSent, staleBody, orchVars>>

\* the server's connection ends while the body is being received
ResAborted ==
    /\ InSuite
    /\ pc = "probe"
    /\ req.phase = "body"
    /\ req' = OnAborted(req)
    /\ UNCHANGED <<script, fatal, mock, pc, exitCode, retries, idx, i, passed,
                   failed, results, lastError, lastMessage, calls, sleeps,
                   attemptLog, started, probeNo, staleSent, staleBody,
                   orchVars>>

\* what Node does when the event loop has nothing left to wait for: the
\* process ends with code 0 (process.exitCode was never set)
OnLoopEmpty ==
    exitCode' = 0

\* The awaited promise can no longer settle and no socket or timer is left:
\* the process ends where it stands, runHealthChecks never resumes.
Drain ==
    /\ InSuite
    /\ pc = "probe"
    /\ req.phase = "aborted"
    /\ staleSent = 0
    /\ staleBody = 0
    /\ OnLoopEmpty
    /\ UNCHANGED <<script, fatal, mock, pc, suiteVars, orchVars>>

\* A timed-out request gets its response: the callback's clearTimeout finds
\* the timer already fired.
LateResponse ==
    /\ InSuite
    /\ staleSent > 0
    /\ staleSent' = staleSent - 1
    /\ staleBody' = staleBody + 1
    /\ UNCHANGED <<script, fatal, mock, pc, exitCode, retries, idx, i, passed,
                   failed, results, lastError, lastMessage, calls, sleeps,
                   attemptLog, started, req, probeNo, orchVars>>

\* variant: resolve is shared between the calls of makeRequest, so that the
\* 'end' of a timed-out request resolves the probe awaited now
LateEnd_SettlesCurrent ==
    /\ InSuite
    /\ pc = "probe"
    /\ staleBody > 0
    /\ staleBody' = staleBody - 1
    /\ AttemptPassed
    /\ lastMessage' = Surfaced(NoMessage)
    /\ UNCHANGED <<script, fatal, mock, exitCode, retries, staleSent,
                   orchVars>>

\* 'end' of a timed-out request: resolve() of a promise already rejected
LateEnd ==
    /\ InSuite
    /\ staleBody > 0
    /\ staleBody' = staleBody - 1
    /\ UNCHANGED <<script, fatal, mock, pc, exitCode, retries, idx, i, passed,
                   failed, results, lastError, lastMessage, calls, sleeps,
                   attemptLog, started, req, probeNo, staleSent, orchVars>>

\* 'error' of a timed-out request: reject() of a promise already rejected
LateError ==
    /\ InSuite
    /\ staleSent > 0
    /\ staleSent' = staleSent - 1
    /\ UNCHANGED <<script, fatal, mock, pc, exitCode, retries, idx, i, passed,
                   failed, results, lastError, lastMessage, calls, sleeps,
                   attemptLog, started, req, probeNo, staleBody, orchVars>>

\* if (failed > 0) process.exit(1) else process.exit(0)
SuiteExitCode(f) ==
    IF f > 0 THEN 1 ELSE 0

\* variant: the runner exits as soon as a Test Case has failed
SuiteExit_OnFirstFailure ==
    /\ InSuite
    /\ pc = "loop"
    /\ idx > Len(tests(script)) \/ failed > 0
    /\ exitCode' = SuiteExitCode(failed)
    /\ pc' = "exited"
    /\ UNCHANGED <<script, fatal, mock, suiteVars, orchVars>>

\* the code after the for ... of loop of the runner
SuiteExit ==
    /\ InSuite
    /\ pc = "loop"
    /\ idx > Len(tests(script))
    /\ exitCode' = SuiteExitCode(failed)
    /\ pc' = "exited"
    /\ UNCHANGED <<script, fatal, mock, suiteVars, orchVars>>

---------------------------------------------------------------------------
\* run-tests.js: command line, suites and subprocesses

Flags ==
    {"--help", "-h", "--health-only", "--integration", "--api-only",
     "--web-only", "--lint-only", "--no-services"}

\* protocols of the base URLs the environment variables API_URL and WEB_URL
\* can name
Schemes ==
    {"http", "https"}

\* const testSuites = [...] of runAllTests
testSuites ==
    <<[name |-> "Health Checks", required |-> TRUE],
      [name |-> "Integration Tests", required |-> TRUE],
      [name |-> "API Tests", required |-> FALSE],
      [name |-> "Web Tests", required |-> FALSE],
      [name |-> "Linting", required |-> FALSE]>>

SuiteIndex(name) ==
    CHOOSE k \in 1..Len(testSuites) : testSuites[k].name = name

\* How a spawned command can end:
\*   exit0         'close' with code 0
\*   exit_nonzero  'close' with a code other than 0
\*   signal        'close' with code null (killed by a signal)
\*   spawn_error   'error' (the process could not be spawned)
ChildOutcomes ==
    {"exit0", "exit_nonzero", "signal", "spawn_error"}

\* runCommand: if (code === 0) resolve(code) else reject(...); on 'error' reject
CommandSucceeded(o) ==
    o = "exit0"

\* how the end of a child process with this exit code reaches runCommand:
\* 'close' with that code
CloseOutcome(code) ==
    IF code = 0 THEN "exit0" ELSE "exit_nonzero"

\* runCommand calls a suite function makes when none of them fails
CommandsOf(k) ==
    CASE testSuites[k].name = "Web Tests" ->
            IF hasNodeModules THEN 1 ELSE 2
      [] testSuites[k].name = "Linting" -> 2
      [] OTHER -> 1

\* status: passed ? 'PASSED' : 'FAILED', and 'ERROR' in the catch block
SuiteStatus(outcome) ==
    CASE outcome = "true" -> "PASSED"
      [] outcome = "false" -> "FAILED"
      [] OTHER -> "ERROR"

\* The members of the object runAllTests pushes to results:
\*   try:   { name, status: passed ? 'PASSED' : 'FAILED', duration, required }
\*   catch: { name, status: 'ERROR', error: error.message, required }
SuiteResultKeys(outcome) ==
    IF outcome \in {"true", "false"}
    THEN {"name", "status", "duration", "required"}
    ELSE {"name", "status", "error", "required"}

\* variant: every result that is not PASSED counts, required or not
RequiredFailed_CountsOptional(rs) ==
    Cardinality({k \in 1..Len(rs) : rs[k].status # "PASSED"})

\* the forEach of the summary: requiredFailed++ for a required result that
\* is not PASSED
RequiredFailed(rs) ==
    Cardinality({k \in 1..Len(rs) : rs[k].status # "PASSED" /\ rs[k].required})

\* if (requiredFailed > 0) process.exit(1) else process.exit(0)
RunAllExitCode(rs) ==
    IF RequiredFailed(rs) > 0 THEN 1 ELSE 0

\* variant: the exit codes of the two verdicts are swapped
SingleExitCode_Swapped(outcome) ==
    IF outcome = "true" THEN 1 ELSE 0

\* .then(passed => process.exit(passed ? 0 : 1))
SingleExitCode(outcome) ==
    IF outcome = "true" THEN 0 ELSE 1

\* variant: the branches of the chain are tested in the opposite order
Selected_Reversed(a) ==
    IF "--lint-only" \in a THEN "Linting"
    ELSE IF "--web-only" \in a THEN "Web Tests"
    ELSE IF "--api-only" \in a THEN "API Tests"
    ELSE IF "--integration" \in a THEN "Integration Tests"
    ELSE IF "--health-only" \in a THEN "Health Checks"
    ELSE "all"

\* the if / else if chain over args.includes(...): the first branch whose
\* flag is among the arguments is taken; includes looks at membership only,
\* so the argument list is kept as the set of its elements
Selected(a) ==
    IF "--health-only" \in a THEN "Health Checks"
    ELSE IF "--integration" \in a THEN "Integration Tests"
    ELSE IF "--api-only" \in a THEN "API Tests"
    ELSE IF "--web-only" \in a THEN "Web Tests"
    ELSE IF "--lint-only" \in a THEN "Linting"
    ELSE "all"

\* variant: only the long form of the flag is looked for
WantsHelp_LongOnly(a) ==
    "--help" \in a

\* if (args.includes('--help') || args.includes('-h'))
WantsHelp(a) ==
    "--help" \in a \/ "-h" \in a

\* runAllTests awaits checkServices() whatever the flags are
RunsPreflight(a) ==
    TRUE

\* the for ... of loop of runAllTests takes the next entry of testSuites
NextSuite(k) ==
    k + 1

InOrch ==
    script = "run-tests" /\ exitCode = -1

\* suite.fn() is called and runs up to its first await runCommand(...)
CallSuite(k) ==
    /\ suiteIdx' = k
    /\ runs' = [runs EXCEPT ![k] = @ + 1]
    /\ cmdNo' = 1
    /\ lintResults' = << >>
    /\ cmdLog' = << >>
    /\ pc' = "child"

\* checkService(url): http.get(url, ...), req.setTimeout(5000, ...)
SendPreflight(n) ==
    /\ preflight' = n
    /\ pc' = "preflight"

\* the URL of the n-th service checkServices probes
ServiceScheme(n) ==
    IF n = 1 THEN urlScheme.api ELSE urlScheme.web

\* checkService calls get of require('http') whatever the URL is: for a URL
\* whose protocol is not http: the call throws inside the promise executor
ProbeThrows(n) ==
    ServiceScheme(n) # "http"

\* runAllTests().catch(error => { log(...); process.exit(1) })
CatchExit ==
    /\ exitCode' = 1
    /\ pc' = "caught"

\* await checkService(...): nothing between the call and the catch handler
\* of the top-level code catches what the executor throws
CheckService(n) ==
    IF ProbeThrows(n)
    THEN /\ CatchExit
         /\ UNCHANGED preflight
    ELSE /\ SendPreflight(n)
         /\ UNCHANGED exitCode

\* the top-level code of run-tests.js
Dispatch ==
    /\ InOrch
    /\ pc = "main"
    /\ IF WantsHelp(args)
       THEN /\ exitCode' = 0
            /\ pc' = "exited"
            /\ UNCHANGED <<mode, suiteIdx, runs, cmdNo, lintResults, cmdLog,
                           preflight>>
       ELSE IF Selected(args) # "all"
            THEN /\ mode' = "single"
                 /\ CallSuite(SuiteIndex(Selected(args)))
                 /\ UNCHANGED <<exitCode, preflight>>
            ELSE /\ mode' = "all"
                 /\ IF RunsPreflight(args)
                    THEN /\ CheckService(1)
                         /\ UNCHANGED <<suiteIdx, runs, cmdNo, lintResults,
                                        cmdLog>>
                    ELSE /\ pc' = "suites"
                         /\ UNCHANGED <<suiteIdx, runs, cmdNo, lintResults,
                                        cmdLog, preflight, exitCode>>
    /\ UNCHANGED <<script, fatal, mock, suiteVars, args, urlScheme,
                   hasNodeModules, apiHealthy, webHealthy, suiteResults>>

\* a checkService promise resolves with `healthy`; checkServices goes on with
\* the second service, then runAllTests reaches its loop over testSuites
PreflightSettled(healthy) ==
    /\ IF preflight = 1
       THEN /\ apiHealthy' = healthy
            /\ CheckService(2)
            /\ UNCHANGED webHealthy
       ELSE /\ webHealthy' = healthy
            /\ pc' = "suites"
            /\ UNCHANGED <<apiHealthy, preflight, exitCode>>
    /\ UNCHANGED <<script, fatal, mock, suiteVars, args, urlScheme, mode,
                   hasNodeModules, suiteIdx, suiteResults, runs, cmdNo,
                   lintResults, cmdLog>>

\* (res) => resolve(res.statusCode === 200)
PreflightResponse ==
    /\ InOrch
    /\ pc = "preflight"
    /\ \E is200 \in BOOLEAN : PreflightSettled(is200)

\* req.on('error', () => resolve(false))
PreflightError ==
    /\ InOrch
    /\ pc = "preflight"
    /\ PreflightSettled(FALSE)

\* req.setTimeout(5000, () => { req.destroy(); resolve(false) })
PreflightTimeout ==
    /\ InOrch
    /\ pc = "preflight"
    /\ PreflightSettled(FALSE)

\* for (const suite of testSuites) { ... await suite.fn() ...
StartSuite ==
    /\ InOrch
    /\ pc = "suites"
    /\ suiteIdx <= Len(testSuites)
    /\ CallSuite(suiteIdx)
    /\ UNCHANGED <<script, fatal, mock, exitCode, suiteVars, args, urlScheme,
                   mode, hasNodeModules, apiHealthy, webHealthy, preflight,
                   suiteResults>>

\* variant: runAllTests leaves its loop when a suite has not passed
SuiteSettled_StopOnFailure(outcome) ==
    IF mode = "single"
    THEN /\ exitCode' = SingleExitCode(outcome)
         /\ pc' = "exited"
         /\ UNCHANGED <<suiteIdx, suiteResults>>
    ELSE /\ suiteResults' =
              Append(suiteResults,
                     [name |-> testSuites[suiteIdx].name,
                      status |-> SuiteStatus(outcome),
                      required |-> testSuites[suiteIdx].required,
                      keys |-> SuiteResultKeys(outcome)])
         /\ suiteIdx' = IF outcome = "true"
                        THEN NextSuite(suiteIdx)
                        ELSE Len(testSuites) + 1
         /\ pc' = "suites"
         /\ UNCHANGED exitCode

\* the suite function has settled with `outcome` ("true", "false", "throw")
SuiteSettled(outcome) ==
    IF mode = "single"
    THEN /\ exitCode' = SingleExitCode(outcome)
         /\ pc' = "exited"
         /\ UNCHANGED <<suiteIdx, suiteResults>>
    ELSE /\ suiteResults' =
              Append(suiteResults,
                     [name |-> testSuites[suiteIdx].name,
                      status |-> SuiteStatus(outcome),
                      required |-> testSuites[suiteIdx].required,
                      keys |-> SuiteResultKeys(outcome)])
         /\ suiteIdx' = NextSuite(suiteIdx)
         /\ pc' = "suites"
         /\ UNCHANGED exitCode

\* variant: the verdict is that of the linter run last
LintVerdict_LastOnly(lr) ==
    IF lr[Len(lr)] = "failed" THEN "false" ELSE "true"

\* return lintFailed === 0
LintVerdict(lr) ==
    IF \E k \in 1..Len(lr) : lr[k] = "failed" THEN "false" ELSE "true"

\* the awaited runCommand promise settles and the suite function goes on:
\* every suite function wraps its commands in try / catch and returns a boolean
CommandSettled(o) ==
    LET ok == CommandSucceeded(o)
        lint == testSuites[suiteIdx].name = "Linting"
        lr == Append(lintResults, IF ok THEN "passed" ELSE "failed")
    IN
    /\ lintResults' = IF lint THEN lr ELSE lintResults
    /\ cmdLog' = Append(cmdLog, o)
    /\ IF cmdNo < CommandsOf(suiteIdx) /\ (ok \/ lint)
       THEN /\ cmdNo' = cmdNo + 1
            /\ UNCHANGED <<pc, exitCode, suiteIdx, suiteResults>>
       ELSE /\ cmdNo' = 0
            /\ SuiteSettled(IF lint THEN LintVerdict(lr)
                            ELSE IF ok THEN "true" ELSE "false")
    /\ UNCHANGED <<script, fatal, mock, suiteVars, args, urlScheme, mode,
                   hasNodeModules, apiHealthy, webHealthy, preflight, runs>>

\* proc.on('close', (code) => ...)
ChildClose ==
    /\ InOrch
    /\ pc = "child"
    /\ \E o \in ChildOutcomes \ {"spawn_error"} : CommandSettled(o)

\* proc.on('error', (error) => reject(error))
ChildSpawnError ==
    /\ InOrch
    /\ pc = "child"
    /\ CommandSettled("spawn_error")

\* the summary of runAllTests and its process.exit
Summary ==
    /\ InOrch
    /\ pc = "suites"
    /\ suiteIdx > Len(testSuites)
    /\ exitCode' = RunAllExitCode(suiteResults)
    /\ pc' = "exited"
    /\ UNCHANGED <<script, fatal, mock, suiteVars, orchVars>>

---------------------------------------------------------------------------
\* tests/platform-check.js

\* const tests = [...] of runPlatformCompatibilityCheck
PlatformChecks ==
    <<"Path Handling", "Node.js Commands", "Python Commands",
      "Docker Commands", "Environment Variables", "File Permissions",
      "Shell Compatibility">>

\* if (passed >= 5)
MinPassed == 5

\* What a check function can return.  Each of them catches the errors of its
\* commands and file accesses and returns a boolean;
\* checkEnvironmentVariables returns true whatever it finds.
CheckVerdicts(k) ==
    IF PlatformChecks[k] = "Environment Variables" THEN {TRUE} ELSE BOOLEAN

\* return passed >= 5
PlatformVerdict(p) ==
    p >= MinPassed

InPlatform ==
    script = "platform-check" /\ exitCode = -1

\* const passed = await test.fn();
\* results.push({ name, status: passed ? 'PASSED' : 'FAILED' })
PlatformCheck ==
    /\ InPlatform
    /\ pc = "loop"
    /\ idx <= Len(PlatformChecks)
    /\ \E ok \in CheckVerdicts(idx) :
          results' = Append(results,
                            [test |-> idx,
                             status |-> IF ok THEN "PASSED" ELSE "FAILED",
                             keys |-> {"name", "status"}])
    /\ idx' = idx + 1
    /\ UNCHANGED <<script, fatal, mock, pc, exitCode, retries, i, passed,
                   failed, lastError, lastMessage, calls, sleeps, attemptLog,
                   started, req, probeNo, staleSent, staleBody, orchVars>>

\* The forEach over results counts passed and failed, and the function
\* returns passed >= 5.  The caller attaches a catch handler only: the value
\* is dropped, nothing calls process.exit, and the process ends when the
\* event loop is empty.
PlatformReturn ==
    /\ InPlatform
    /\ pc = "loop"
    /\ idx > Len(PlatformChecks)
    /\ passed' = Cardinality({k \in 1..Len(results) :
                                 results[k].status = "PASSED"})
    /\ failed' = Cardinality({k \in 1..Len(results) :
                                 results[k].status # "PASSED"})
    /\ pc' = "returned"
    /\ OnLoopEmpty
    /\ UNCHANGED <<script, fatal, mock, retries, idx, i, results, lastError,
                   lastMessage, calls, sleeps, attemptLog, started, req,
                   probeNo, staleSent, staleBody, orchVars>>

---------------------------------------------------------------------------
\* The process-level handlers the suite scripts and run-tests.js register

\* variant: the handlers log the error and let the process go on
OnFatal_LogOnly ==
    UNCHANGED exitCode

\* process.on('unhandledRejection', ...) and process.on('uncaughtException',
\* ...): log(...); process.exit(1)
OnFatal ==
    exitCode' = 1

\* An exception escapes a callback, or a promise is rejected with no handler,
\* while the script waits for a response, a timer or a child process.
Uncaught ==
    /\ exitCode = -1
    /\ ~fatal
    /\ pc \in {"probe", "sleep", "preflight", "child"}
    /\ fatal' = TRUE
    /\ OnFatal
    /\ UNCHANGED <<script, mock, pc, suiteVars, orchVars>>

---------------------------------------------------------------------------

InitSuiteVars ==
    /\ idx = 1
    /\ i = 0
    /\ passed = 0
    /\ failed = 0
    /\ results = << >>
    /\ lastError = NoError
    /\ lastMessage = NoMessage
    /\ calls = 0
    /\ sleeps = 0
    /\ attemptLog = << >>
    /\ started = {}
    /\ req = NoReq
    /\ probeNo = 0
    /\ staleSent = 0
    /\ staleBody = 0

InitOrchVars ==
    /\ mode = "none"
    /\ apiHealthy = FALSE
    /\ webHealthy = FALSE
    /\ preflight = 0
    /\ suiteIdx = 1
    /\ suiteResults = << >>
    /\ runs = [k \in 1..Len(testSuites) |-> 0]
    /\ cmdNo = 0
    /\ lintResults = << >>
    /\ cmdLog = << >>

InitSuite ==
    /\ script \in SuiteScripts
    /\ pc = "loop"
    /\ retries \in 0..MaxRetries
    /\ args = {}
    /\ urlScheme = [api |-> "http", web |-> "http"]
    /\ hasNodeModules = FALSE

InitOrch ==
    /\ script = "run-tests"
    /\ pc = "main"
    /\ retries = RETRY_COUNT
    /\ args \in SUBSET Flags
    /\ urlScheme \in [api : Schemes, web : Schemes]
    /\ hasNodeModules \in BOOLEAN

InitPlatform ==
    /\ script = "platform-check"
    /\ pc = "loop"
    /\ retries = RETRY_COUNT
    /\ args = {}
    /\ urlScheme = [api |-> "http", web |-> "http"]
    /\ hasNodeModules = FALSE

Init ==
    /\ exitCode = -1
    /\ fatal = FALSE
    /\ mock = NoMock
    /\ InitSuiteVars
    /\ InitOrchVars
    /\ (InitSuite \/ InitOrch \/ InitPlatform)

Next ==
    \/ StartTest
    \/ ReqError
    \/ ResHeaders
    \/ ResEnd
    \/ TimerFire
    \/ Tick
    \/ Wake
    \/ LateResponse
    \/ LateEnd
    \/ LateError
    \/ ResAborted
    \/ Drain
    \/ SuiteExit
    \/ Dispatch
    \/ PreflightResponse
    \/ PreflightError
    \/ PreflightTimeout
    \/ StartSuite
    \/ ChildClose
    \/ ChildSpawnError
    \/ Summary
    \/ PlatformCheck
    \/ PlatformReturn
    \/ Uncaught

Spec ==
    Init /\ [][Next]_vars

\* A suite script run with its default retries against a mock server, which
\* answers every request at once and completely: the probe of the Test Case
\* modelled on content gets the mocked response on every attempt.
InitMock ==
    /\ exitCode = -1
    /\ fatal = FALSE
    /\ InitSuiteVars
    /\ InitOrchVars
    /\ script \in SuiteScripts
    /\ pc = "loop"
    /\ retries = RETRY_COUNT
    /\ args = {}
    /\ urlScheme = [api |-> "http", web |-> "http"]
    /\ hasNodeModules = FALSE
    /\ mock \in [on : {TRUE}, response : ServerResponses(script)]

NextMock ==
    \/ StartTest
    \/ ResHeaders
    \/ ResEnd
    \/ Wake
    \/ SuiteExit

SpecMock ==
    InitMock /\ [][NextMock]_vars

---------------------------------------------------------------------------
\* Properties

AllFail(log) ==
    \A j \in 1..Len(log) : log[j] = "fail"

\* testWithRetry has just reported a failure to the runner
Reported ==
    pc \in {"loop", "exited"} /\ lastError.kind # "none"

Finished ==
    {"PASSED", "FAILED", "ERROR"}

\* the state of the k-th suite of runAllTests
SuiteState(k) ==
    IF k <= Len(suiteResults)
    THEN suiteResults[k].status
    ELSE IF pc = "child" /\ suiteIdx = k THEN "RUNNING" ELSE "NOT_RUN"

Forward(a, b) ==
    \/ a = b
    \/ a = "NOT_RUN" /\ b = "RUNNING"
    \/ a = "RUNNING" /\ b \in Finished

RanAll ==
    script = "run-tests" /\ mode = "all" /\ pc = "exited"

\* C1: when runAllTests has run all its suites and exits, the exit code is 1
\* if and only if Health Checks or Integration Tests (the suites registered
\* with required = true) did not pass; failures of API Tests, Web Tests and
\* Linting alone leave it 0.
C1_ExitCodeIffRequiredFailed ==
    RanAll =>
        /\ Len(suiteResults) = Len(testSuites)
        /\ exitCode \in {0, 1}
        /\ exitCode = 1 <=>
              \E k \in 1..Len(suiteResults) :
                  /\ suiteResults[k].name \in {"Health Checks", "Integration Tests"}
                  /\ suiteResults[k].status # "PASSED"

C1_Witness ==
    /\ RanAll
    /\ exitCode = 0
    /\ suiteResults[3].status = "FAILED"
    /\ suiteResults[4].status = "FAILED"
    /\ suiteResults[5].status = "FAILED"

\* C2: with retries = N >= 1, a test function that fails on each of its N
\* attempts is invoked exactly N times with exactly N - 1 sleeps before the
\* failure is reported, and a failure of any kind (timeout, network error,
\* failed assertion) is reported only after N invocations and N - 1 sleeps.
C2_ExhaustedAttemptCounts ==
    (script \in SuiteScripts /\ retries >= 1) =>
        /\ calls <= retries
        /\ (Len(attemptLog) = retries /\ AllFail(attemptLog)) =>
              /\ Reported
              /\ calls = retries
              /\ sleeps = retries - 1
        /\ Reported =>
              /\ lastError.kind \in {"timeout", "network", "assert"}
              /\ calls = retries
              /\ sleeps = retries - 1

C2_Witness ==
    /\ script = "ci-health-check"
    /\ retries = RETRY_COUNT
    /\ Reported
    /\ lastError.kind = "assert"
    /\ calls = RETRY_COUNT
    /\ sleeps = RETRY_COUNT - 1

\* C3: when the first attempt of a Test Case fails and the second succeeds,
\* the step of the second attempt counts the Test Case as passed (passed + 1,
\* failed unchanged), surfaces no error and ends the Test Case; the test
\* function is never invoked after an attempt that succeeded.
C3_PassOnSecondAttempt ==
    /\ [](script \in SuiteScripts =>
            /\ \A j \in 1..(Len(attemptLog) - 1) : attemptLog[j] = "fail"
            /\ attemptLog = <<"fail", "pass">> => (calls = 2 /\ pc \in {"loop", "exited"}))
    /\ [][(script \in SuiteScripts /\ attemptLog = <<"fail">>
             /\ attemptLog' = <<"fail", "pass">>) =>
            /\ passed' = passed + 1
            /\ failed' = failed
            /\ lastError' = NoError
            /\ results' = Append(results,
                                 [test |-> idx, status |-> "PASSED",
                                  keys |-> ResultKeys(script, TRUE)])
            /\ pc' = "loop"]_vars

C3_Witness ==
    /\ script = "health-check"
    /\ retries = RETRY_COUNT
    /\ attemptLog = <<"fail", "pass">>
    /\ pc = "loop"
    /\ passed = 1
    /\ failed = 0
    /\ lastError = NoError

\* C4: in health-check.js and integration/run-tests.js testWithRetry raises
\* an error only when all of its N attempts have failed, and the error it
\* raises is the one thrown by attempt N.
C4_RaisesLastErrorAfterN ==
    (script \in {"health-check", "integration"} /\ Reported) =>
        /\ retries >= 1
        /\ Len(attemptLog) = retries
        /\ AllFail(attemptLog)
        /\ lastError.attempt = retries

C4_Witness ==
    /\ script = "integration"
    /\ retries = RETRY_COUNT
    /\ Reported
    /\ lastError = [kind |-> "network", attempt |-> RETRY_COUNT]

\* C5: in every state of a suite run passed + failed is the number of Test
\* Cases that have finished, each finished Test Case being counted in exactly
\* one of the two counters; at the exit it is the number of registered Test
\* Cases.
C5_CountersMatchFinished ==
    script \in SuiteScripts =>
        /\ passed + failed = Len(results)
        /\ passed = Cardinality({k \in 1..Len(results) : results[k].status = "PASSED"})
        /\ failed = Cardinality({k \in 1..Len(results) : results[k].status = "FAILED"})
        /\ pc \in {"probe", "sleep"} => Len(results) = idx - 1
        /\ pc = "exited" => passed + failed = Len(tests(script))

C5_Witness ==
    /\ script = "ci-health-check"
    /\ pc = "exited"
    /\ passed = 2
    /\ failed = 2

\* C6: when a suite script exits, every registered Test Case has an outcome
\* and (with retries >= 1, as the scripts call testWithRetry) has been
\* invoked, whichever Test Cases failed.
C6_NoShortCircuit ==
    (script \in SuiteScripts /\ pc = "exited") =>
        /\ Len(results) = Len(tests(script))
        /\ \A k \in 1..Len(tests(script)) :
              /\ results[k].test = k
              /\ retries >= 1 => k \in started

C6_Witness ==
    /\ script = "health-check"
    /\ retries = RETRY_COUNT
    /\ pc = "exited"
    /\ results[1].status = "FAILED"
    /\ results[2].status = "PASSED"
    /\ 2 \in started

\* C7: Test Cases run one at a time in registration order: outcomes are
\* recorded in that order, and the Test Cases invoked so far are exactly the
\* finished ones plus, while an attempt or a retry delay is pending, the
\* current one.
C7_SequentialInOrder ==
    script \in SuiteScripts =>
        /\ \A k \in 1..Len(results) : results[k].test = k
        /\ pc \in {"probe", "sleep"} =>
              /\ idx = Len(results) + 1
              /\ idx \in started
        /\ retries >= 1 =>
              started = 1..(IF pc \in {"probe", "sleep"}
                            THEN Len(results) + 1
                            ELSE Len(results))

C7_Witness ==
    /\ script = "integration"
    /\ pc = "sleep"
    /\ idx = 2
    /\ results[1].status = "FAILED"
    /\ started = {1, 2}

\* C8: at any moment of a suite run at most one HTTP request issued by the
\* suite is outstanding.
C8_OneRequestOutstanding ==
    script \in SuiteScripts => Outstanding <= 1

\* C9: a probe that has not produced a complete response within TIMEOUT has
\* failed with the timeout error: no makeRequest promise is still pending
\* after more than TIMEOUT.
C9_ProbeSettlesWithinTimeout ==
    (script \in SuiteScripts /\ pc = "probe") => req.elapsed <= TimeoutTicks

\* C10: runAllTests runs its suites one at a time in the order Health Checks,
\* Integration Tests, API Tests, Web Tests, Linting; each suite only moves
\* NOT_RUN -> RUNNING -> {PASSED, FAILED, ERROR}, is called at most once and,
\* when runAllTests exits, exactly once, whatever the earlier suites' results.
C10_SuitesInOrderOnce ==
    /\ []((script = "run-tests" /\ mode = "all") =>
            /\ \A k \in 1..Len(suiteResults) :
                  suiteResults[k].name =
                      <<"Health Checks", "Integration Tests", "API Tests",
                        "Web Tests", "Linting">>[k]
            /\ \A k \in 1..Len(testSuites) :
                  /\ runs[k] <= 1
                  /\ runs[k] = 1 <=> SuiteState(k) # "NOT_RUN"
                  /\ (k > 1 /\ runs[k] = 1) => SuiteState(k - 1) \in Finished
            /\ pc = "exited" =>
                  \A k \in 1..Len(testSuites) :
                      runs[k] = 1 /\ SuiteState(k) \in Finished)
    /\ [][(script = "run-tests" /\ mode = "all") =>
            \A k \in 1..Len(testSuites) :
                Forward(SuiteState(k), SuiteState(k)')]_vars

C10_Witness ==
    /\ RanAll
    /\ suiteResults[1].status = "FAILED"
    /\ suiteResults[3].status = "FAILED"
    /\ suiteResults[5].status = "PASSED"
    /\ runs[5] = 1

\* the suite function whose result was recorded last made a runCommand call
\* that ended with spawn's 'error' event
LaunchFailed ==
    \E j \in 1..Len(cmdLog) : cmdLog[j] = "spawn_error"

\* every command of that suite function was spawned, and one of them ended
\* with a code other than 0
RanAndFailed ==
    /\ ~LaunchFailed
    /\ \E j \in 1..Len(cmdLog) : cmdLog[j] # "exit0"

\* C11: in runAllTests a suite whose subprocess could not be launched (spawn
\* emits 'error') is recorded with status ERROR, and a suite whose commands
\* ran and failed is recorded with status FAILED.
C11_LaunchFailureIsError ==
    (script = "run-tests" /\ mode = "all" /\ pc = "suites"
       /\ Len(suiteResults) > 0) =>
        /\ LaunchFailed => suiteResults[Len(suiteResults)].status = "ERROR"
        /\ RanAndFailed => suiteResults[Len(suiteResults)].status = "FAILED"

\* C12: the pre-flight check gates nothing: checkServices never rejects (the
\* run never ends in the catch handler), the suites start only after exactly
\* one probe per service, and at the exit of runAllTests every suite has been
\* run and the exit code is decided by the suite results alone, whatever
\* apiHealthy and webHealthy are.
C12_PreflightDoesNotGate ==
    (script = "run-tests" /\ mode = "all") =>
        /\ pc # "caught"
        /\ pc \in {"suites", "child", "exited"} => preflight = 2
        /\ pc = "exited" =>
              /\ \A k \in 1..Len(testSuites) : runs[k] = 1
              /\ exitCode = RunAllExitCode(suiteResults)

\* C13: once an unhandled rejection or uncaught exception has been raised the
\* process has exit code 1, the step that raised it starts no Test Case and
\* no suite and records no outcome, no step follows it, and the script has
\* not reached its own exit-code decision.
C13_FailFast ==
    /\ [](fatal => (exitCode = 1 /\ pc \notin {"exited", "caught"}))
    /\ [][fatal' => UNCHANGED <<script, pc, suiteVars, orchVars>>]_vars
    /\ [][fatal => UNCHANGED vars]_vars

C13_Witness ==
    /\ fatal
    /\ exitCode = 1
    /\ script = "integration"
    /\ pc = "sleep"
    /\ idx = 2
    /\ results[1].status = "FAILED"
    /\ Len(results) = 1

\* the suite each selection flag stands for
FlagSuite ==
    [f \in {"--health-only", "--integration", "--api-only", "--web-only",
            "--lint-only"} |->
        CASE f = "--health-only" -> "Health Checks"
          [] f = "--integration" -> "Integration Tests"
          [] f = "--api-only" -> "API Tests"
          [] f = "--web-only" -> "Web Tests"
          [] OTHER -> "Linting"]

\* the suite function called last ran all its commands and each ended with
\* code 0
AllCommandsSucceeded ==
    /\ Len(cmdLog) = CommandsOf(suiteIdx)
    /\ \A j \in 1..Len(cmdLog) : cmdLog[j] = "exit0"

\* C14: without --help / -h, run-tests.js given exactly one selection flag
\* calls only that flag's suite function, once, sends no pre-flight probe and
\* exits 0 if the suite passed and 1 otherwise; given no selection flag it
\* runs runAllTests.
C14_CliDispatch ==
    (script = "run-tests" /\ ~WantsHelp(args) /\ pc # "main") =>
        /\ (args \cap DOMAIN FlagSuite = {}) => mode = "all"
        /\ \A f \in DOMAIN FlagSuite :
              (args \cap DOMAIN FlagSuite = {f}) =>
                  /\ mode = "single"
                  /\ preflight = 0
                  /\ \A k \in 1..Len(testSuites) :
                        runs[k] = IF testSuites[k].name = FlagSuite[f]
                                  THEN 1 ELSE 0
                  /\ pc = "exited" =>
                        exitCode = IF AllCommandsSucceeded THEN 0 ELSE 1

C14_Witness ==
    /\ script = "run-tests"
    /\ args = {"--web-only", "--no-services"}
    /\ ~hasNodeModules
    /\ pc = "exited"
    /\ exitCode = 0
    /\ cmdLog = <<"exit0", "exit0">>
    /\ runs = [k \in 1..Len(testSuites) |-> IF k = 4 THEN 1 ELSE 0]

\* C15: with --no-services among the arguments run-tests.js sends no
\* pre-flight probe: checkServices is not called.
C15_NoServicesSkipsPreflight ==
    (script = "run-tests" /\ "--no-services" \in args) =>
        (preflight = 0 /\ pc # "preflight")

\* C16: with --help or -h among the arguments, whatever the other flags,
\* run-tests.js exits with code 0 in its first step, having called no suite
\* function and sent no pre-flight probe.
C16_HelpExitsZero ==
    (script = "run-tests" /\ ("--help" \in args \/ "-h" \in args)) =>
        /\ pc \in {"main", "exited"}
        /\ pc = "exited" => exitCode = 0
        /\ mode = "none"
        /\ preflight = 0
        /\ \A k \in 1..Len(testSuites) : runs[k] = 0

C16_Witness ==
    /\ script = "run-tests"
    /\ args = {"-h", "--lint-only", "--no-services"}
    /\ pc = "exited"
    /\ exitCode = 0
    /\ cmdLog = << >>

\* the mocked response is 200 with a JSON object whose status is 'ok'
MockHealthy ==
    /\ mock.response.statusCode = 200
    /\ mock.response.body.kind = "object"
    /\ mock.response.body.status = "ok"

\* the attempts logged are those of the k-th Test Case: it is running, or
\* its outcome has just been recorded
AtTest(k) ==
    \/ idx = k /\ pc \in {"probe", "sleep"}
    \/ idx = k + 1 /\ pc = "loop"

\* C17: testApiHealth of health-check.js completes without raising exactly
\* when the response to GET /health is 200 with a JSON body whose status is
\* 'ok'; against a server answering 503 on every attempt, testWithRetry with
\* 3 attempts invokes it 3 times and ends in the error "API health check
\* failed with status 503", and the Test Case is recorded FAILED.
C17_ApiHealthVerdict ==
    (script = "health-check" /\ mock.on /\ AtTest(1)) =>
        /\ \A j \in 1..Len(attemptLog) :
              attemptLog[j] = "pass" <=> MockHealthy
        /\ (mock.response.statusCode = 503 /\ idx = 2) =>
              /\ attemptLog = <<"fail", "fail", "fail">>
              /\ calls = 3
              /\ results[1].status = "FAILED"
              /\ lastError = [kind |-> "assert", attempt |-> 3]
              /\ lastMessage.text = "API health check failed with status"
              /\ lastMessage.code = 503

C17_Witness ==
    /\ script = "health-check"
    /\ mock.on
    /\ mock.response.statusCode = 503
    /\ idx = 2
    /\ pc = "loop"
    /\ calls = 3
    /\ sleeps = 2
    /\ lastMessage = Msg("API health check failed with status", 503, "")

\* the first of environment, cors_origins, allowed_hosts the body lacks
FirstLacking(b) ==
    IF "environment" \notin b.fields
    THEN "environment"
    ELSE IF "cors_origins" \notin b.fields
         THEN "cors_origins"
         ELSE IF "allowed_hosts" \notin b.fields
              THEN "allowed_hosts"
              ELSE "none"

\* C18: testEnvironmentConfig, given a 200 response of GET /api/status with a
\* JSON object that lacks some of environment, cors_origins, allowed_hosts,
\* raises on every attempt, and the error the Test Case ends with is "Missing
\* configuration field" naming the first lacking field in that order; an
\* attempt returns normally only if the response is 200 with all three.
C18_FirstMissingFieldNamed ==
    (script = "integration" /\ mock.on /\ AtTest(7)) =>
        /\ (\E j \in 1..Len(attemptLog) : attemptLog[j] = "pass") =>
              /\ mock.response.statusCode = 200
              /\ FirstLacking(mock.response.body) = "none"
        /\ (/\ mock.response.statusCode = 200
            /\ mock.response.body.kind = "object"
            /\ FirstLacking(mock.response.body) # "none"
            /\ idx = 8) =>
              /\ results[7].status = "FAILED"
              /\ lastMessage = Msg("Missing configuration field", 0,
                                   FirstLacking(mock.response.body))

C18_Witness ==
    /\ script = "integration"
    /\ mock.on
    /\ mock.response.statusCode = 200
    /\ mock.response.body.kind = "object"
    /\ mock.response.body.fields = {"environment"}
    /\ idx = 8
    /\ pc = "loop"
    /\ results[7].status = "FAILED"
    /\ lastMessage = Msg("Missing configuration field", 0, "cors_origins")

\* C19: testApiHealth of ci-health-check.js fails, and the Test Case is
\* counted in failed, when GET /health answers 200 with a body that is not
\* valid JSON or whose status is not 'ok'.
C19_CiApiHealthFailsOnBadBody ==
    (/\ script = "ci-health-check"
     /\ mock.on
     /\ mock.response.statusCode = 200
     /\ ~MockHealthy
     /\ idx >= 2) =>
        /\ results[1].status = "FAILED"
        /\ failed >= 1

\* C20: a suite script gives one exit-code verdict: when it exits after its
\* Test Cases have finished the code is 1 if failed > 0 and 0 if failed = 0,
\* and the process never ends with code 0 when some Test Case exhausted its
\* retries.
C20_SingleVerdict ==
    (script \in SuiteScripts /\ retries = RETRY_COUNT) =>
        /\ pc = "exited" =>
              /\ Len(results) = Len(tests(script))
              /\ exitCode = IF failed > 0 THEN 1 ELSE 0
        /\ exitCode = 0 =>
              /\ failed = 0
              /\ \A k \in 1..Len(results) : results[k].status # "FAILED"

\* C21: the platform compatibility check ends with a non-zero exit code when
\* fewer than 5 of its 7 checks passed (runPlatformCompatibilityCheck returns
\* false) and with 0 when at least 5 passed.
C21_PlatformVerdictIsExitCode ==
    (script = "platform-check" /\ pc = "returned") =>
        /\ Len(results) = 7
        /\ passed + failed = 7
        /\ passed >= 5 => exitCode = 0
        /\ passed < 5 => exitCode \notin {-1, 0}

\* C22: every entry runIntegrationTests and runAllTests append to results,
\* whether PASSED, FAILED or ERROR, carries a duration.
C22_EveryOutcomeHasDuration ==
    /\ (script = "integration" /\ retries = RETRY_COUNT) =>
          \A k \in 1..Len(results) : "duration" \in results[k].keys
    /\ script = "run-tests" =>
          \A k \in 1..Len(suiteResults) : "duration" \in suiteResults[k].keys

\* runLinting has been called and has returned
LintSettled ==
    /\ script = "run-tests"
    /\ runs[SuiteIndex("Linting")] = 1
    /\ pc \in {"suites", "exited"}

\* C23: runLinting runs both linters, the second also when the first failed,
\* and records one result per linter (passed for exit code 0, failed
\* otherwise); it never throws, and it returns true exactly when both linters
\* ended with code 0.
C23_LintingRunsBoth ==
    /\ (script = "run-tests" /\ pc = "child"
          /\ testSuites[suiteIdx].name = "Linting") =>
          /\ cmdNo \in {1, 2}
          /\ Len(lintResults) = cmdNo - 1
          /\ Len(cmdLog) = cmdNo - 1
    /\ LintSettled =>
          /\ Len(cmdLog) = 2
          /\ Len(lintResults) = 2
          /\ \A j \in 1..2 :
                lintResults[j] = IF cmdLog[j] = "exit0"
                                 THEN "passed" ELSE "failed"
          /\ mode = "all" =>
                /\ suiteResults[5].status \in {"PASSED", "FAILED"}
                /\ suiteResults[5].status = "PASSED" <=>
                      cmdLog = <<"exit0", "exit0">>
          /\ (mode = "single" /\ pc = "exited") =>
                (exitCode = 0 <=> cmdLog = <<"exit0", "exit0">>)

C23_Witness ==
    /\ LintSettled
    /\ mode = "all"
    /\ cmdLog = <<"exit_nonzero", "exit0">>
    /\ lintResults = <<"failed", "passed">>
    /\ suiteResults[5].status = "FAILED"

\* every Test Case of the script has an outcome and all of them passed
AllTestsPassed ==
    /\ Len(results) = Len(tests(script))
    /\ \A k \in 1..Len(results) : results[k].status = "PASSED"

\* C24: the orchestrator's verdict on a subprocess-backed suite is the
\* child's: a child script (health-check.js, integration/run-tests.js) ends
\* with a code that runCommand takes as success exactly when every Test Case
\* passed, and runHealthChecks / runIntegrationTests give true (suite
\* PASSED) exactly when their command ended with 'close' and code 0, give
\* false for a non-zero code, a signal or a spawn error.
C24_ChildVerdictMatches ==
    /\ (script \in {"health-check", "integration"} /\ retries = RETRY_COUNT
          /\ exitCode # -1) =>
          (CommandSucceeded(CloseOutcome(exitCode)) <=> AllTestsPassed)
    /\ (script = "run-tests" /\ mode = "all" /\ pc = "suites"
          /\ Len(suiteResults) \in {1, 2}) =>
          /\ Len(cmdLog) = 1
          /\ suiteResults[Len(suiteResults)].status =
                IF cmdLog[1] = "exit0" THEN "PASSED" ELSE "FAILED"

\* the runner has just recorded the outcome of a Test Case, whose attempts
\* are those in attemptLog
JustRecorded ==
    /\ script \in SuiteScripts
    /\ pc \in {"loop", "exited"}
    /\ Len(results) > 0

\* C25: for every retries >= 0, a Test Case is counted as passed only if an
\* invocation of its test function returned without throwing.
C25_NoPassWithoutAttempt ==
    (JustRecorded /\ results[Len(results)].status = "PASSED") =>
        \E j \in 1..Len(attemptLog) : attemptLog[j] = "pass"

\* number of attempts in the log that failed
Failures(log) ==
    Cardinality({j \in 1..Len(log) : log[j] = "fail"})

\* C26: for every retries >= 0 and every sequence of attempt results, the
\* boolean variant of testWithRetry (ci-health-check.js) has the Test Case
\* counted as passed exactly when the throwing variant (health-check.js)
\* does, and both make one invocation per attempt and sleep after each
\* failed attempt but the last of an exhausted Test Case.
C26_VariantsAgree ==
    JustRecorded =>
        /\ results[Len(results)].status = "PASSED" <=>
              CountsAsPassed(script, RetryResult(script, retries, attemptLog))
        /\ CountsAsPassed("ci-health-check",
                          RetryResult("ci-health-check", retries, attemptLog))
              <=> CountsAsPassed("health-check",
                                 RetryResult("health-check", retries,
                                             attemptLog))
        /\ calls = Len(attemptLog)
        /\ sleeps = IF results[Len(results)].status = "PASSED"
                    THEN Failures(attemptLog)
                    ELSE IF Failures(attemptLog) > 0
                         THEN Failures(attemptLog) - 1
                         ELSE 0

\* what the runner and testWithRetry hold of the Test Cases and attempts
AttemptState ==
    <<pc, exitCode, idx, i, passed, failed, results, lastError, lastMessage,
      calls, sleeps, attemptLog, started, req, probeNo>>

\* a callback of a request whose promise the timeout has rejected runs
LateCallback ==
    staleSent' < staleSent \/ staleBody' < staleBody

\* C27: a probe has one outcome. A response, an 'end' or an error that
\* arrives for a request after its timeout rejected the promise changes
\* nothing of the attempts and Test Cases (neither the one it belonged to
\* nor the one awaited now); recorded outcomes are never rewritten; and
\* once the response callback has run the timer is cleared, so that no
\* attempt whose response was delivered ends with the timeout error.
C27_ProbeSettlesOnce ==
    /\ []((script \in SuiteScripts /\ req.phase \in {"body", "aborted"})
             => ~req.timer)
    /\ [][/\ LateCallback => UNCHANGED AttemptState
          /\ Len(results') >= Len(results)
          /\ SubSeq(results', 1, Len(results)) = results
          /\ (req.phase = "body" /\ lastError' # lastError)
                => lastError'.kind # "timeout"]_vars

\* the Test Case before this one ended with the timeout error, the response
\* of that request has arrived since, and a later probe is being awaited
C27_Witness ==
    /\ script \in SuiteScripts
    /\ pc = "probe"
    /\ idx > 1
    /\ lastError.kind = "timeout"
    /\ staleBody > 0

\* the selection flags, from the highest priority to the lowest
FlagPriority ==
    <<"--health-only", "--integration", "--api-only", "--web-only",
      "--lint-only">>

\* the selection flag of highest priority among the arguments
TopFlag(a) ==
    FlagPriority[CHOOSE j \in 1..Len(FlagPriority) :
                    /\ FlagPriority[j] \in a
                    /\ \A m \in 1..(j - 1) : FlagPriority[m] \notin a]

\* C28: without --help / -h, when one or several selection flags are given
\* run-tests.js calls exactly one suite function, once: that of the flag of
\* highest priority in --health-only > --integration > --api-only >
\* --web-only > --lint-only; runAllTests is not run (no pre-flight probe, no
\* entry in its results).
C28_FlagPrecedence ==
    (/\ script = "run-tests"
     /\ ~WantsHelp(args)
     /\ pc # "main"
     /\ args \cap DOMAIN FlagSuite # {}) =>
        /\ mode = "single"
        /\ preflight = 0
        /\ suiteResults = << >>
        /\ \A k \in 1..Len(testSuites) :
              runs[k] = IF testSuites[k].name = FlagSuite[TopFlag(args)]
                        THEN 1 ELSE 0

\* --lint-only and --integration together: the integration suite alone ran
C28_Witness ==
    /\ script = "run-tests"
    /\ args = {"--lint-only", "--integration"}
    /\ pc = "exited"
    /\ runs = [k \in 1..Len(testSuites) |->
                  IF testSuites[k].name = "Integration Tests" THEN 1 ELSE 0]

\* Test Cases of the suite that have no outcome yet, the current one included
TestsLeft ==
    Len(tests(script)) - Len(results)

\* invocations of a test function the suite may still make: `retries` for
\* each Test Case not begun, and what is left of them for the current one
CallsLeft ==
    retries * TestsLeft - (IF pc \in {"probe", "sleep"} THEN calls ELSE 0)

\* retry delays the suite may still make
SleepsLeft ==
    (retries - 1) * TestsLeft - (IF pc \in {"probe", "sleep"} THEN sleeps ELSE 0)

\* a step in which testWithRetry calls the test function
Invokes ==
    pc \in {"loop", "sleep"} /\ pc' = "probe"

\* a step in which testWithRetry starts a retry delay
Sleeps ==
    pc = "probe" /\ pc' = "sleep"

\* the run is one in which every probe settles and no exception escapes
Settling ==
    req.phase # "aborted" /\ ~fatal

\* most makeRequest calls of one test function
MaxProbes ==
    Len(ContentTypeEndpoints)

\* How far a suite script is from its end, most significant first: the
\* process is alive; Test Cases without an outcome; iterations of the for
\* loop of testWithRetry not begun (one more before the Test Case is begun);
\* probes the current attempt may still make (none during a retry delay);
\* events the current request still waits for; time to the end of its
\* timeout; callbacks of timed-out requests still to come.
Rank ==
    <<IF exitCode = -1 THEN 1 ELSE 0,
      TestsLeft,
      IF pc \in {"probe", "sleep"} THEN retries - i ELSE retries + 1,
      IF pc = "probe" THEN MaxProbes + 1 - probeNo ELSE 0,
      CASE req.phase = "sent" -> 2
        [] req.phase = "body" -> 1
        [] OTHER -> 0,
      TimeoutTicks + 1 - req.elapsed,
      2 * staleSent + staleBody>>

\* lexicographic order on tuples of the same length
LexLess(a, b) ==
    \E k \in 1..Len(a) :
       /\ a[k] < b[k]
       /\ \A j \in 1..(k - 1) : a[j] = b[j]

\* a step of a live process that lowers Rank and takes from the budgets what
\* it uses
WithinBudget ==
    /\ exitCode = -1
    /\ LexLess(Rank', Rank)
    /\ CallsLeft' <= CallsLeft
    /\ Invokes => CallsLeft' < CallsLeft
    /\ retries >= 1 =>
          /\ SleepsLeft' <= SleepsLeft
          /\ Sleeps => SleepsLeft' < SleepsLeft

\* C29: a suite script with T Test Cases and retry count N makes at most N*T
\* invocations of test functions and (for N >= 1) at most (N-1)*T retry
\* delays: the budgets start at N*T and (N-1)*T, never go below 0, and each
\* invocation and each delay takes one from its budget. Every run is finite
\* (each step lowers Rank, a tuple of natural numbers, in the lexicographic
\* order), and as long as every probe settles and no exception escapes the
\* script can always take a step until it has called process.exit: so it
\* reaches process.exit, after which nothing runs, and it calls it only when
\* every Test Case has an outcome, with code 1 if one of them failed and 0
\* otherwise.
C29_BoundedWorkAndExit ==
    /\ [](script \in SuiteScripts =>
            /\ CallsLeft >= 0
            /\ CallsLeft <= retries * Len(tests(script))
            /\ retries >= 1 =>
                  /\ SleepsLeft >= 0
                  /\ SleepsLeft <= (retries - 1) * Len(tests(script))
            /\ \A k \in 1..Len(Rank) : Rank[k] \in Nat
            /\ (Settling /\ exitCode = -1) => ENABLED <<Next>>_vars
            /\ (Settling /\ exitCode # -1) =>
                  /\ pc = "exited"
                  /\ Len(results) = Len(tests(script))
                  /\ exitCode = SuiteExitCode(failed))
    /\ [][(script \in SuiteScripts) => WithinBudget]_vars

\* the integration suite with the default retry count exits after every
\* Test Case used all its invocations and delays
C29_Witness ==
    /\ script = "integration"
    /\ retries = RETRY_COUNT
    /\ pc = "exited"
    /\ Settling
    /\ CallsLeft = 0
    /\ SleepsLeft = 0
    /\ failed = Len(tests(script))

====
